---- MODULE Spec2Model ----
(***************************************************************************)
(* Top-to-bottom runs of the three tutorial notebooks of project-tikebook: *)
(*   "cloud"       src/unnamed/part_000 (working with cloud data)          *)
(*   "lightcurves" src/notebooks/01-lightcurves/01-Lightcurves.ipynb       *)
(*   "classify"    src/notebooks/05-classify-with-ml/05-classify-with-ml   *)
(* One action is one code cell.  The variables are the notebook's          *)
(* module-level names, the set of file handles that are open, and the      *)
(* data the remote services and the stella library hand to the notebook.   *)
(* A cell that raises stops the run: error holds the exception and no      *)
(* later cell executes.                                                    *)
(* Numbers that can be fractional or NaN are pairs <<numerator,            *)
(* denominator>> in lowest terms; <<0, 0>> is NaN.                         *)
(***************************************************************************)
EXTENDS Integers, Sequences, FiniteSets, TLC

VARIABLES
    nb,             \* the notebook this run executes
    pc,             \* index in Cells[nb] of the next cell to run
    error,          \* "" or the exception that stopped the run
    execution_count,\* cells executed so far (the kernel's In[n] counter)
    names,          \* bindings made so far: [cell, written]
    open_handles,   \* file handles currently open: [name, opened_in]
    \* ---- what the outside world holds
    tp_archive,     \* the target pixel file MAST serves for ex_id
    tesscut,        \* the cutout Tesscut.get_cutouts returns
    stella_ds,      \* the partitions stella.FlareDataSet builds
    mast_rows,      \* rows of the table download_products returns, per product
    stella_env,     \* what importing / installing stella does in this kernel
    mast_lcs,       \* what search_lightcurve(...).download_all() returns
    \* ---- cloud notebook
    fits_file,
    \* ---- lightcurves notebook
    tp_fits, aperture_image, aperture, pix, flux, time,
    hdulist, hdu1, aperture_ffi, pix_ffi, flux_ffi, time_ffi,
    \* ---- classify notebook
    ds, idx_train, idx_test, idx_val, fit_args, cm_args, cm_fig,
    import_log,     \* steps cell 9f8439c9 took: "import" / "install"
    seed_log,       \* seeds set so far: [cell, generator, value]
    cnn,            \* the network object: [stage, weights]
    cnn_file, disk, \* the path of the saved network, the files saved
    cm_return,      \* value of the plot_confusion_matrix(...) call
    lcs, printed,   \* downloaded collections, lines printed by cell 6de76c30
    cnn_stella,     \* the stella.ConvNN object
    predict_calls,  \* calls of cnn_stella.predict: [modelname, targetid, fluxes]
    subplots,       \* axes of figure 0: [position, title]
    loops,          \* the for loops being run, innermost last: [name, i, n]
    iterations      \* passes of each loop's body so far

lc_vars == <<tp_fits, aperture_image, aperture, pix, flux, time,
             hdulist, hdu1, aperture_ffi, pix_ffi, flux_ffi, time_ffi>>
\* names of the classify notebook from its seeding cell on
app_vars == <<import_log, seed_log, cnn_file, disk, lcs, printed,
              cnn_stella, predict_calls, subplots>>
ml_vars == <<ds, idx_train, idx_test, idx_val, fit_args, cm_args, cm_fig,
             cnn, cm_return, app_vars>>
world_vars == <<tp_archive, tesscut, stella_ds, mast_rows, stella_env,
                mast_lcs>>
run_vars == <<pc, error, execution_count, names>>
loop_vars == <<loops, iterations>>
vars == <<nb, run_vars, open_handles, world_vars, fits_file, lc_vars, ml_vars,
          loop_vars>>

----------------------------------------------------------------------------
(* Bounds of the model *)

\* pixels of a target pixel file / cutout image (flattened row-major)
NPix == 2
\* cadences (rows of the PIXELS table)
NCad == 2
\* largest flag integer of a pixel of the aperture extension
MaxFlag == 7
\* largest value of a pixel of a cutout's aperture extension
MaxApVal == 2
\* samples of the labelled data set, over its three partitions
MaxSamples == 2
\* rows of a table download_products returns
MaxRows == 1
\* light curves in the collection one target's search downloads
MaxLCs == 2

----------------------------------------------------------------------------
(* Numbers *)

NaN == <<0, 0>>
Zero == <<0, 1>>
One == <<1, 1>>
Half == <<1, 2>>

RECURSIVE GCD(_, _)
GCD(a, b) == IF b = 0 THEN a ELSE GCD(b, a % b)

\* an integer as a float
Float(n) == <<n, 1>>

\* numpy's / on non-negative numbers: 0/0 is nan, n/0 is inf
TrueDivide(n, d) ==
    IF d = 0
    THEN IF n = 0 THEN NaN ELSE <<1, 0>>
    ELSE LET g == GCD(n, d) IN <<n \div g, d \div g>>

isnan(x) == x = NaN

\* x > y on floats; every comparison with nan is False
Greater(x, y) ==
    /\ ~isnan(x)
    /\ ~isnan(y)
    /\ x[1] * y[2] > y[1] * x[2]

\* x + y on floats; nan propagates
Add(x, y) ==
    IF isnan(x) \/ isnan(y) THEN NaN
    ELSE IF x[2] = 0 \/ y[2] = 0 THEN <<1, 0>>
    ELSE TrueDivide(x[1] * y[2] + y[1] * x[2], x[2] * y[2])

RECURSIVE np_sum(_)
np_sum(s) == IF s = <<>> THEN 0 ELSE Head(s) + np_sum(Tail(s))

RECURSIVE Pow2(_)
Pow2(n) == IF n = 0 THEN 1 ELSE 2 * Pow2(n - 1)

SeqsUpTo(S, n) == UNION {[1..k -> S] : k \in 0..n}

----------------------------------------------------------------------------
(* Cells and file handles *)

\* the code cells of each notebook, top to bottom, by cell id
Cells ==
    [cloud       |-> <<"2c8b5772", "5fda2e83", "d06399ef", "a88960dd",
                      "17d51a7f", "a36aa989", "870832fb", "02767a2f",
                      "b0d975dd", "608483f9", "4e4e9e10", "4be426fb">>,
     lightcurves |-> <<"7414e1ae", "09ebfd2a", "72f35a03", "3a237f11",
                      "7825d706", "dda5e69f", "7e4e2950", "2ddb555c",
                      "027f8a1a", "836b0e60", "a754d3b6", "9c0ea151",
                      "66fa7d2e", "3cbd77a8", "cdab8b16", "6e0de97b",
                      "adf4620c", "634f5753", "7ea9c9d7">>,
     classify    |-> <<"9de1b24e", "9f8439c9", "0576a44e", "2d72e552",
                      "295d8b7f", "b2385bd3", "245b3c8b", "155ca817",
                      "bbb30625", "efb1e1f0", "431aa51e", "aedab5be",
                      "1a0a501f", "36b53d6e", "76cf6117", "68987361",
                      "f32865d6", "8105f129", "ad47c76f", "bff10e4a",
                      "cbdc85f0", "6de76c30", "1119c631", "7084f1e7">>]

Notebooks == DOMAIN Cells

\* the module-level names a cell reads that it has not itself assigned
\* before the read (a function's body reads when the function is called)
Reads ==
    "2c8b5772" :> {} @@
    "5fda2e83" :> {"Observations"} @@
    "d06399ef" :> {"Observations", "SkyCoord"} @@
    "a88960dd" :> {"Observations"} @@
    "17d51a7f" :> {"limit_cols", "obs"} @@
    "a36aa989" :> {"Observations", "limit_cols"} @@
    "870832fb" :> {"Observations", "TESS_table"} @@
    "02767a2f" :> {"Observations", "data_products"} @@
    "b0d975dd" :> {"Observations", "filtered_image"} @@
    "608483f9" :> {"fits", "fits_file"} @@
    "4e4e9e10" :> {"WCS", "fits", "fits_file"} @@
    "4be426fb" :> {"image", "np", "plt", "wcs"} @@
    "7414e1ae" :> {} @@
    "09ebfd2a" :> {"Observations"} @@
    "72f35a03" :> {"Observations"} @@
    "3a237f11" :> {"Observations", "cols", "data_products"} @@
    "7825d706" :> {"Observations", "fits", "lc_prod", "tp_prod"} @@
    "dda5e69f" :> {"lc_fits"} @@
    "7e4e2950" :> {"lc", "plt"} @@
    "2ddb555c" :> {"fits", "tp_file"} @@
    "027f8a1a" :> {"np", "tp_fits"} @@
    "836b0e60" :> {} @@
    "a754d3b6" :> {"aperture", "aperture_phot", "np", "tp_fits"} @@
    "9c0ea151" :> {"flux", "plt", "time"} @@
    "66fa7d2e" :> {"flux", "plt", "sapflux", "time", "time_lc"} @@
    "3cbd77a8" :> {"Observations"} @@
    "cdab8b16" :> {"Tesscut"} @@
    "6e0de97b" :> {"hdulist"} @@
    "adf4620c" :> {"aperture_phot", "hdu1", "np"} @@
    "634f5753" :> {"flux_ffi", "plt", "time_ffi"} @@
    "7ea9c9d7" :> {"flux_ffi", "plt", "time_ffi"} @@
    "9de1b24e" :> {} @@
    "9f8439c9" :> {} @@
    "0576a44e" :> {} @@
    "2d72e552" :> {"download_file", "file_url", "tarfile"} @@
    "295d8b7f" :> {"file"} @@
    "b2385bd3" :> {"stella"} @@
    "245b3c8b" :> {"ds", "np"} @@
    "155ca817" :> {"ds", "np", "plt"} @@
    "bbb30625" :> {"np", "os", "random", "tf"} @@
    "efb1e1f0" :> {} @@
    "431aa51e" :> {} @@
    "aedab5be" :> {} @@
    "1a0a501f" :> {"Convolution1D", "Dense", "Dropout", "Flatten", "Input",
                  "MaxPooling1D", "Model", "dense", "dropout", "ds",
                  "filter1", "filter2", "np"} @@
    "36b53d6e" :> {"cnn"} @@
    "76cf6117" :> {"cnn", "ds"} @@
    "68987361" :> {"cnn"} @@
    "f32865d6" :> {"history", "plt"} @@
    "8105f129" :> {"history", "plt"} @@
    "ad47c76f" :> {} @@
    "bff10e4a" :> {"cnn", "ds", "metrics", "np", "plot_confusion_matrix",
                  "plt"} @@
    "cbdc85f0" :> {"search_lightcurve"} @@
    "6de76c30" :> {"lcs", "np"} @@
    "1119c631" :> {"data_dir", "ds", "stella"} @@
    "7084f1e7" :> {"cnn_file", "cnn_stella", "lcs", "plt"}

\* the module-level names a cell binds: assignments, imports, defs, loop
\* variables
Writes ==
    "2c8b5772" :> {"Observations", "SkyCoord", "WCS", "fits", "np", "plt"} @@
    "5fda2e83" :> {} @@
    "d06399ef" :> {"coordinates", "obs"} @@
    "a88960dd" :> {"limit_cols", "obs"} @@
    "17d51a7f" :> {"tess_obs"} @@
    "a36aa989" :> {"TESS_table"} @@
    "870832fb" :> {"data_products", "filtered"} @@
    "02767a2f" :> {"filtered_image", "fixed_id"} @@
    "b0d975dd" :> {"data", "fits_file"} @@
    "608483f9" :> {} @@
    "4e4e9e10" :> {"hdulist", "header", "image", "wcs"} @@
    "4be426fb" :> {} @@
    "7414e1ae" :> {"Observations", "Table", "Tesscut", "fits", "np", "plt"} @@
    "09ebfd2a" :> {} @@
    "72f35a03" :> {"TESS_table", "cols", "data_products", "filtered"} @@
    "3a237f11" :> {"ex_id", "lc_prod", "tp_prod"} @@
    "7825d706" :> {"lc_file", "lc_fits", "tp_file", "tp_fits"} @@
    "dda5e69f" :> {"lc"} @@
    "7e4e2950" :> {"fig", "pdcflux", "sapflux", "time_lc"} @@
    "2ddb555c" :> {} @@
    "027f8a1a" :> {"aperture", "aperture_image"} @@
    "836b0e60" :> {"aperture_phot"} @@
    "a754d3b6" :> {"flux", "pix", "time"} @@
    "9c0ea151" :> {"fig"} @@
    "66fa7d2e" :> {"fig"} @@
    "3cbd77a8" :> {"TESS_table"} @@
    "cdab8b16" :> {"hdulist"} @@
    "6e0de97b" :> {"hdu1"} @@
    "adf4620c" :> {"aperture_ffi", "flux_ffi", "pix_ffi", "time_ffi"} @@
    "634f5753" :> {"fig"} @@
    "7ea9c9d7" :> {"fig"} @@
    "9de1b24e" :> {"Activation", "BatchNormalization", "Convolution1D",
                  "Dense", "Dropout", "Flatten", "Input", "MaxPooling1D",
                  "Model", "Sequential", "download_file", "fits",
                  "load_model", "metrics", "np", "os", "plt", "random",
                  "search_lightcurve", "tarfile", "tf", "ticker"} @@
    "9f8439c9" :> {"stella"} @@
    "0576a44e" :> {"file_url"} @@
    "2d72e552" :> {"file"} @@
    "295d8b7f" :> {} @@
    "b2385bd3" :> {"data_dir", "ds"} @@
    "245b3c8b" :> {"idx_test", "idx_train", "idx_val", "remove_nans"} @@
    "155ca817" :> {"colors", "example_ids", "example_labels",
                  "example_lightcurves", "fig", "i", "titles"} @@
    "bbb30625" :> {"seed"} @@
    "efb1e1f0" :> {"filter1", "filter2"} @@
    "431aa51e" :> {"dense"} @@
    "aedab5be" :> {"dropout"} @@
    "1a0a501f" :> {"b0", "b1", "c0", "c1", "cnn", "d0", "d1", "d2",
                  "data_shape", "f", "input_shape", "x_in", "y_out", "z0"} @@
    "36b53d6e" :> {"fit_metrics", "loss", "optimizer"} @@
    "76cf6117" :> {"batch_size", "history", "nb_epoch", "shuffle"} @@
    "68987361" :> {"cnn_file"} @@
    "f32865d6" :> {} @@
    "8105f129" :> {} @@
    "ad47c76f" :> {"plot_confusion_matrix"} @@
    "bff10e4a" :> {} @@
    "cbdc85f0" :> {"lc", "lcs", "name", "sectors", "ticids"} @@
    "6de76c30" :> {"lc"} @@
    "1119c631" :> {"cnn_stella"} @@
    "7084f1e7" :> {"ax", "fig", "i", "im", "lc"}

\* the kernel stops executing cells at the first cell that raises
At_ignoring_error(n, c) == nb = n /\ pc <= Len(Cells[n]) /\ Cells[n][pc] = c
At(n, c) == nb = n /\ error = "" /\ pc <= Len(Cells[n]) /\ Cells[n][pc] = c

\* the cell c of notebook n has run
Ran(n, c) == nb = n /\ \E i \in 1..Len(Cells[n]) : Cells[n][i] = c /\ pc > i

Finished == pc = Len(Cells[nb]) + 1

\* all notebooks share one kind of namespace: a binding made by a cell stays
\* for every later cell of the run
assign_rebinding(bound, cell, written) ==
    {[cell |-> cell, written |-> written]}
assign(bound, cell, written) ==
    bound \cup {[cell |-> cell, written |-> written]}

\* the names that are bound
Bound(bound) == UNION {b.written : b \in bound}

\* the last statement of the cell has run
Complete(c) ==
    /\ pc' = pc + 1
    /\ error' = ""
    /\ execution_count' = execution_count + 1
    /\ names' = assign(names, c, Writes[c])

\* a statement of the cell raised exc after the names in written were bound
Halt(c, exc, written) ==
    /\ pc' = pc
    /\ error' = exc
    /\ execution_count' = execution_count + 1
    /\ names' = assign(names, c, written)

\* the cell ran to its end in one step
Done(c) == Complete(c) /\ UNCHANGED loop_vars

\* the cell, run in one step, raised exc after binding the names in written
Raise(c, exc, written) == Halt(c, exc, written) /\ UNCHANGED loop_vars

handle_open(handles, name, cell) ==
    handles \cup {[name |-> name, opened_in |-> cell]}

handle_close(handles, name) == {h \in handles : h.name # name}

\* with <open> as name: <body>  -- the handle is closed when the block ends
with_open(handles, name, cell) ==
    handle_close(handle_open(handles, name, cell), name)

----------------------------------------------------------------------------
(* FITS files of the lightcurves notebook *)

Pixels == 1..NPix
Cadences == 1..NCad

NoFile == [aperture |-> <<>>, FLUX |-> <<>>, TIME |-> <<>>]
NoTable == [FLUX |-> <<>>, TIME |-> <<>>]

\* TIME column: one strictly increasing time stamp per cadence
Times == [t \in Cadences |-> 10 + t]

\* the image of cadence t is t times the image of the first cadence
FluxVals == {0, 1, 2}
FluxCubes ==
    {[t \in Cadences |-> [p \in Pixels |-> t * img[p]]] :
        img \in [Pixels -> FluxVals]}

\* every subset of the pixels has its own sum, and so has every cadence
RampFlux == [t \in Cadences |-> [p \in Pixels |-> t * Pow2(p - 1)]]

TPFiles ==
    {[aperture |-> a, FLUX |-> RampFlux, TIME |-> Times] :
        a \in [Pixels -> 0..MaxFlag]}
    \cup
    {[aperture |-> a, FLUX |-> f, TIME |-> Times] :
        a \in [Pixels -> {1, 3}], f \in FluxCubes}

Cutouts ==
    {[aperture |-> a, FLUX |-> f, TIME |-> Times] :
        a \in [Pixels -> 0..MaxApVal], f \in FluxCubes}

PlainTPF == [aperture |-> [p \in Pixels |-> 3], FLUX |-> RampFlux, TIME |-> Times]
PlainCutout == [aperture |-> [p \in Pixels |-> 1], FLUX |-> RampFlux, TIME |-> Times]

----------------------------------------------------------------------------
(* Functions of the lightcurves notebook *)

RECURSIVE bitwise_and(_, _)
bitwise_and(a, b) ==
    IF a = 0 \/ b = 0 THEN 0
    ELSE (a % 2) * (b % 2) + 2 * bitwise_and(a \div 2, b \div 2)

\* aperture = np.bitwise_and(aperture_image, 2) / float(2), one pixel
optimal_aperture_bit1(flag) == TrueDivide(bitwise_and(flag, 1), 2)
optimal_aperture_nodiv(flag) == Float(bitwise_and(flag, 2))
optimal_aperture(flag) == TrueDivide(bitwise_and(flag, 2), 2)

\* image[mask]: the values of image at the positions where mask is True,
\* in position order
RECURSIVE BoolIndexFrom(_, _, _)
BoolIndexFrom(image, mask, p) ==
    IF p > Len(image) THEN <<>>
    ELSE (IF mask[p] THEN <<image[p]>> ELSE <<>>)
         \o BoolIndexFrom(image, mask, p + 1)

BoolIndex(image, mask) == BoolIndexFrom(image, mask, 1)

aperture_phot_nonzero(image, ap) ==
    np_sum(BoolIndex(image, [p \in DOMAIN ap |-> ap[p] # Zero]))
aperture_phot_all(image, ap) ==
    np_sum(BoolIndex(image, [p \in DOMAIN ap |-> TRUE]))
aperture_phot_fallback(image, ap) ==
    IF \E p \in DOMAIN ap : ap[p] = One
    THEN np_sum(BoolIndex(image, [p \in DOMAIN ap |-> ap[p] = One]))
    ELSE np_sum(image)
aperture_phot(image, ap) ==
    np_sum(BoolIndex(image, [p \in DOMAIN ap |-> ap[p] = One]))

\* np.array(list(map(lambda x: aperture_phot(x, ap), FLUX)))
light_curve(FLUX, ap) == [t \in DOMAIN FLUX |-> aperture_phot(FLUX[t], ap)]

----------------------------------------------------------------------------
(* Cells of the cloud notebook *)

\* the 'Local Path' column of the table Observations.download_products returns
download_products(product) ==
    [i \in 1..mast_rows[product] |-> product]

\* column[0] exists
HasRow0(column) == Len(column) > 0

\* data = Observations.download_products(...); fits_file = data['Local Path'][0]
DownloadFFI ==
    /\ At("cloud", "b0d975dd")
    /\ LET data == download_products("ffi")
       IN  IF HasRow0(data)
           THEN /\ fits_file' = data[1]
                /\ Done("b0d975dd")
           ELSE /\ Raise("b0d975dd", "IndexError", {"data"})
                /\ UNCHANGED fits_file
    /\ UNCHANGED <<nb, open_handles, world_vars, lc_vars, ml_vars>>

\* with fits.open(fits_file, mode="readonly") as hdulist: ...
ReadFFI ==
    /\ At("cloud", "4e4e9e10")
    /\ open_handles' = with_open(open_handles, "hdulist", "4e4e9e10")
    /\ Done("4e4e9e10")
    /\ UNCHANGED <<nb, fits_file, world_vars, lc_vars, ml_vars>>

----------------------------------------------------------------------------
(* Cells of the lightcurves notebook *)

\* lc_fits = fits.open(lc_file); tp_fits = fits.open(tp_file)
DownloadFits ==
    /\ At("lightcurves", "7825d706")
    /\ IF ~HasRow0(download_products("lc"))
       THEN /\ Raise("7825d706", "IndexError", {})
            /\ UNCHANGED <<tp_fits, open_handles>>
       ELSE IF ~HasRow0(download_products("tp"))
       THEN /\ Raise("7825d706", "IndexError", {"lc_file", "lc_fits"})
            /\ open_handles' = handle_open(open_handles, "lc_fits", "7825d706")
            /\ UNCHANGED tp_fits
       ELSE /\ tp_fits' = tp_archive
            /\ open_handles' =
                 handle_open(handle_open(open_handles, "lc_fits", "7825d706"),
                             "tp_fits", "7825d706")
            /\ Done("7825d706")
    /\ UNCHANGED <<nb, world_vars, fits_file, ml_vars, aperture_image,
                   aperture, pix, flux, time, hdulist, hdu1, aperture_ffi,
                   pix_ffi, flux_ffi, time_ffi>>

\* aperture_image = tp_fits[2].data; aperture = bitwise_and(...) / float(2)
OptimalAperture ==
    /\ At("lightcurves", "027f8a1a")
    /\ aperture_image' = tp_fits.aperture
    /\ aperture' = [p \in DOMAIN tp_fits.aperture |->
                       optimal_aperture(tp_fits.aperture[p])]
    /\ Done("027f8a1a")
    /\ UNCHANGED <<nb, open_handles, world_vars, fits_file, ml_vars, tp_fits,
                   pix, flux, time, hdulist, hdu1, aperture_ffi, pix_ffi,
                   flux_ffi, time_ffi>>

\* pix = tp_fits[1].data; flux = ...map aperture_phot...; time = pix["TIME"]
TPLightCurve ==
    /\ At("lightcurves", "a754d3b6")
    /\ pix' = [FLUX |-> tp_fits.FLUX, TIME |-> tp_fits.TIME]
    /\ flux' = light_curve(pix'.FLUX, aperture)
    /\ time' = pix'.TIME
    /\ Done("a754d3b6")
    /\ UNCHANGED <<nb, open_handles, world_vars, fits_file, ml_vars, tp_fits,
                   aperture_image, aperture, hdulist, hdu1, aperture_ffi,
                   pix_ffi, flux_ffi, time_ffi>>

\* hdulist = Tesscut.get_cutouts(objectname="HD 115447", size=10, sector=10)
GetCutouts ==
    /\ At("lightcurves", "cdab8b16")
    /\ hdulist' = <<tesscut>>
    /\ Done("cdab8b16")
    /\ UNCHANGED <<nb, open_handles, world_vars, fits_file, ml_vars, tp_fits,
                   aperture_image, aperture, pix, flux, time, hdu1,
                   aperture_ffi, pix_ffi, flux_ffi, time_ffi>>

\* hdu1 = hdulist[0]
LoadFirstCutout ==
    /\ At("lightcurves", "6e0de97b")
    /\ hdu1' = hdulist[1]
    /\ Done("6e0de97b")
    /\ UNCHANGED <<nb, open_handles, world_vars, fits_file, ml_vars, tp_fits,
                   aperture_image, aperture, pix, flux, time, hdulist,
                   aperture_ffi, pix_ffi, flux_ffi, time_ffi>>

\* aperture_ffi = hdu1[2].data; pix_ffi = hdu1[1].data; flux_ffi = ...;
\* time_ffi = hdu1[1].data['TIME']
FFILightCurve ==
    /\ At("lightcurves", "adf4620c")
    /\ aperture_ffi' = [p \in DOMAIN hdu1.aperture |-> Float(hdu1.aperture[p])]
    /\ pix_ffi' = [FLUX |-> hdu1.FLUX, TIME |-> hdu1.TIME]
    /\ flux_ffi' = light_curve(pix_ffi'.FLUX, aperture_ffi')
    /\ time_ffi' = hdu1.TIME
    /\ Done("adf4620c")
    /\ UNCHANGED <<nb, open_handles, world_vars, fits_file, ml_vars, tp_fits,
                   aperture_image, aperture, pix, flux, time, hdulist, hdu1>>

----------------------------------------------------------------------------
(* The labelled data set of the classify notebook *)

\* a light curve segment: cadences x 1 values, each finite (1.0) or nan
SampleShape == <<2, 1>>
Samples == [1..SampleShape[1] -> [1..SampleShape[2] -> {One, NaN}]]
Labels == {0, 1}

NoDs == [train_data |-> <<>>, train_labels |-> <<>>,
         val_data |-> <<>>, val_labels |-> <<>>,
         test_data |-> <<>>, test_labels |-> <<>>]
NoFit == [train_data |-> <<>>, train_labels |-> <<>>,
          val_data |-> <<>>, val_labels |-> <<>>]
\* the arguments of plot_confusion_matrix and what cnn.predict answered
NoArgs == [input_data |-> <<>>, input_labels |-> <<>>, probs |-> <<>>]
NoFig == [cells |-> <<>>, xticklabels |-> <<>>, yticklabels |-> <<>>,
          xlabel |-> "", ylabel |-> ""]

Column(pool, c) == [i \in 1..Len(pool) |-> pool[i][c]]

\* stella cuts its pool of labelled segments into three partitions
SplitPool(pool, a, b) ==
    LET tr == SubSeq(pool, 1, a)
        va == SubSeq(pool, a + 1, b)
        te == SubSeq(pool, b + 1, Len(pool))
    IN  [train_data |-> Column(tr, 1), train_labels |-> Column(tr, 2),
         val_data |-> Column(va, 1), val_labels |-> Column(va, 2),
         test_data |-> Column(te, 1), test_labels |-> Column(te, 2)]

DataSets ==
    UNION {{SplitPool(pool, c[1], c[2]) :
               c \in {c \in (0..Len(pool)) \X (0..Len(pool)) : c[1] <= c[2]}} :
              pool \in SeqsUpTo(Samples \X Labels, MaxSamples)}

\* np.random.choice(len(ds.train_labels), 16): the number of examples plotted
NExamples == 16

\* the for statements of the notebooks
LoopNames == {"remove_nans_train", "remove_nans_test", "remove_nans_val",
              "examples", "cm_rows", "cm_cols", "download", "quality_check",
              "predict"}

\* what cnn.predict can return for one sample
Probs == {<<1, 4>>, Half, <<3, 4>>}

\* a data set with one clean training sample and one clean test sample
PlainDs ==
    SplitPool(<<<<[r \in 1..SampleShape[1] |-> [c \in 1..SampleShape[2] |-> One]], 1>>,
                <<[r \in 1..SampleShape[1] |-> [c \in 1..SampleShape[2] |-> One]], 0>>>>,
              1, 1)

\* the network object: not yet made, then built, compiled, trained
NoCnn == [stage |-> "none"]

\* import stella: does the first import succeed, does the install step
\* return or raise, does the import after it succeed
StellaInstalled == [first |-> TRUE, install |-> "returns", second |-> TRUE]
StellaEnvs ==
    {StellaInstalled,
     [first |-> FALSE, install |-> "raises", second |-> FALSE],
     [first |-> FALSE, install |-> "returns", second |-> TRUE],
     [first |-> FALSE, install |-> "returns", second |-> FALSE]}

ticids == <<"120461526", "278779899", "139754153", "273418879", "52121469",
            "188580272", "394015919", "206544316">>

Inf == <<1, 0>>

\* flux columns of a downloaded light curve: all finite, with a nan, with an inf
LCFluxes == {<<One, One>>, <<One, NaN>>, <<Inf, One>>}

\* what download_all() hands back: a LightCurveCollection of the target's
\* light curves, or None
Collection(name, fluxes) ==
    [kind |-> "LightCurveCollection",
     items |-> [k \in DOMAIN fluxes |-> [targetid |-> name, flux |-> fluxes[k]]]]
NoneObject == [kind |-> "None", items |-> <<>>]

SearchResults(name) ==
    {Collection(name, f) : f \in SeqsUpTo(LCFluxes, MaxLCs)} \cup {NoneObject}

\* every target has one light curve with finite flux
PlainLCs ==
    [n \in {ticids[i] : i \in DOMAIN ticids} |-> Collection(n, <<<<One, One>>>>)]

\* all targets as in PlainLCs but one
LCArchives ==
    UNION {{[PlainLCs EXCEPT ![n] = r] : r \in SearchResults(n)} :
              n \in {ticids[i] : i \in DOMAIN ticids}}
NoLCs == [n \in {} |-> NoneObject]

----------------------------------------------------------------------------
(* Functions of the classify notebook *)

RECURSIVE Flatten(_)
Flatten(rows) == IF rows = <<>> THEN <<>> ELSE Head(rows) \o Flatten(Tail(rows))

\* input_data[k, :, :][np.isnan(input_data[k, :, :])]
NaNElems(sample) ==
    LET flat == Flatten(sample)
    IN  BoolIndex(flat, [i \in DOMAIN flat |-> isnan(flat[i])])

AllNaN(sample) == Len(NaNElems(sample)) = Len(Flatten(sample))

\* for k in range(np.shape(input_data)[0]): if len(...) == 0: idx.append(k)
RECURSIVE remove_nans_loop(_, _)
remove_nans_loop(input_data, k) ==
    IF k >= Len(input_data) THEN <<>>
    ELSE (IF Len(NaNElems(input_data[k + 1])) = 0 THEN <<k>> ELSE <<>>)
         \o remove_nans_loop(input_data, k + 1)

remove_nans_unless_all(input_data) ==
    SelectSeq([i \in 1..Len(input_data) |-> i - 1],
              LAMBDA k : ~AllNaN(input_data[k + 1]))
remove_nans_keep_all(input_data) == [i \in 1..Len(input_data) |-> i - 1]
remove_nans(input_data) == remove_nans_loop(input_data, 0)

\* arr[idx] with idx a list of (0-based) positions
Take(arr, idx) == [i \in 1..Len(idx) |-> arr[idx[i] + 1]]

\* ds.train_data = ds.train_data[idx_train]; ... ; ds.val_labels = ...
clean_data_only(d, it, is, iv) ==
    [train_data |-> Take(d.train_data, it), train_labels |-> d.train_labels,
     test_data |-> Take(d.test_data, is), test_labels |-> d.test_labels,
     val_data |-> Take(d.val_data, iv), val_labels |-> d.val_labels]
clean(d, it, is, iv) ==
    [train_data |-> Take(d.train_data, it),
     train_labels |-> Take(d.train_labels, it),
     test_data |-> Take(d.test_data, is),
     test_labels |-> Take(d.test_labels, is),
     val_data |-> Take(d.val_data, iv),
     val_labels |-> Take(d.val_labels, iv)]

\* metrics.confusion_matrix(y_true, y_pred, labels): entry [i][j] counts the
\* samples whose true label is labels[i] and predicted label is labels[j]
confusion_matrix(y_true, y_pred, labels) ==
    [i \in DOMAIN labels |-> [j \in DOMAIN labels |->
        Cardinality({n \in DOMAIN y_true :
                        y_true[n] = labels[i] /\ y_pred[n] = labels[j]})]]

\* what plot_confusion_matrix draws when cnn.predict returns probs
plot_confusion_matrix(probs, input_labels) ==
    LET predictions == [n \in DOMAIN probs |->
                           IF Greater(probs[n], Half) THEN 1 ELSE 0]
        cm == confusion_matrix(input_labels, predictions, <<0, 1>>)
        cm_norm == [i \in DOMAIN cm |-> [j \in DOMAIN cm[i] |->
                       TrueDivide(cm[i][j], np_sum(cm[i]))]]
    IN  [cells |-> cm_norm,
         xticklabels |-> <<"Flare", "No Flare">>,
         yticklabels |-> <<"Flare", "No Flare">>,
         xlabel |-> "Predicted", ylabel |-> "True"]

\* a call plot_confusion_matrix(cnn, input_data, input_labels) when
\* cnn.predict returns probs: the figure shown, the value returned, and the
\* objects behind the three arguments when the call is over
call_plot_confusion_matrix_inplace(net, input_data, input_labels, probs) ==
    [figure |-> plot_confusion_matrix(probs, input_labels),
     returns |-> "None",
     cnn |-> net,
     input_data |-> input_data,
     input_labels |-> [n \in DOMAIN probs |->
                          IF Greater(probs[n], Half) THEN 1 ELSE 0]]
call_plot_confusion_matrix(net, input_data, input_labels, probs) ==
    [figure |-> plot_confusion_matrix(probs, input_labels),
     returns |-> "None",
     cnn |-> net,
     input_data |-> input_data,
     input_labels |-> input_labels]

----------------------------------------------------------------------------
(* Cells of the classify notebook *)

\* file = tarfile.open(download_file(file_url, cache=True))
TarOpen ==
    /\ At("classify", "2d72e552")
    /\ open_handles' = handle_open(open_handles, "file", "2d72e552")
    /\ Done("2d72e552")
    /\ UNCHANGED <<nb, world_vars, fits_file, lc_vars, ml_vars>>

\* file.extractall('.'); file.close()
ExtractAndClose ==
    /\ At("classify", "295d8b7f")
    /\ open_handles' = handle_close(open_handles, "file")
    /\ Done("295d8b7f")
    /\ UNCHANGED <<nb, world_vars, fits_file, lc_vars, ml_vars>>

\* ds = stella.FlareDataSet(fn_dir=data_dir, catalog=...)
LoadDataSet ==
    /\ At("classify", "b2385bd3")
    /\ ds' = stella_ds
    /\ Done("b2385bd3")
    /\ UNCHANGED <<nb, open_handles, world_vars, fits_file, lc_vars,
                   idx_train, idx_test, idx_val, fit_args, cm_args, cm_fig,
                   cnn, cm_return, app_vars>>

\* idx_train = remove_nans(ds.train_data); ...; ds.val_labels = ...
CleanDataSet ==
    /\ At("classify", "245b3c8b")
    /\ idx_train' = remove_nans(ds.train_data)
    /\ idx_test' = remove_nans(ds.test_data)
    /\ idx_val' = remove_nans(ds.val_data)
    /\ ds' = clean(ds, idx_train', idx_test', idx_val')
    /\ Done("245b3c8b")
    /\ UNCHANGED <<nb, open_handles, world_vars, fits_file, lc_vars,
                   fit_args, cm_args, cm_fig, cnn, cm_return, app_vars>>

\* example_ids = np.random.choice(len(ds.train_labels), 16)
\* -- the exception of choosing from an empty range, "" when there is none
random_choice(a, size) == IF a = 0 /\ size > 0 THEN "ValueError" ELSE ""

\* example_ids = np.random.choice(...); ...; for i in range(len(example_ids)):
\*     plt.subplot(4, 4, i + 1); ...
PlotExamples ==
    /\ At("classify", "155ca817")
    /\ IF random_choice(Len(ds.train_labels), NExamples) = ""
       THEN Done("155ca817")
       ELSE Raise("155ca817", random_choice(Len(ds.train_labels), NExamples),
                  {})
    /\ UNCHANGED <<nb, open_handles, world_vars, fits_file, lc_vars, ml_vars>>

\* history = cnn.fit(ds.train_data, ds.train_labels, ...,
\*                   validation_data=(ds.val_data, ds.val_labels), ...)
Fit ==
    /\ At("classify", "76cf6117")
    /\ fit_args' = [train_data |-> ds.train_data,
                    train_labels |-> ds.train_labels,
                    val_data |-> ds.val_data,
                    val_labels |-> ds.val_labels]
    /\ cnn' = [stage |-> "trained"]
    /\ Done("76cf6117")
    /\ UNCHANGED <<nb, open_handles, world_vars, fits_file, lc_vars,
                   ds, idx_train, idx_test, idx_val, cm_args, cm_fig,
                   cm_return, app_vars>>

\* plot_confusion_matrix(cnn, ds.test_data, ds.test_labels)
PlotConfusionMatrix ==
    /\ At("classify", "bff10e4a")
    /\ \E probs \in [1..Len(ds.test_data) -> Probs] :
          LET r == call_plot_confusion_matrix(cnn, ds.test_data,
                                              ds.test_labels, probs)
          IN  /\ cm_fig' = r.figure
              /\ cm_return' = r.returns
              /\ cnn' = r.cnn
              /\ ds' = [ds EXCEPT !.test_data = r.input_data,
                                  !.test_labels = r.input_labels]
              /\ cm_args' = [input_data |-> ds.test_data,
                             input_labels |-> ds.test_labels,
                             probs |-> probs]
    /\ Done("bff10e4a")
    /\ UNCHANGED <<nb, open_handles, world_vars, fits_file, lc_vars,
                   idx_train, idx_test, idx_val, fit_args, app_vars>>

----------------------------------------------------------------------------
(* Importing stella, seeding, building and saving the network *)

\* try: import stella / except: conda run pip install ...; import stella
\* -- the steps taken, and the exception that leaves the cell
try_import_stella_always_install(env) ==
    IF env.first
    THEN [log |-> <<"import", "install">>, error |-> ""]
    ELSE IF env.install = "raises"
    THEN [log |-> <<"import", "install">>, error |-> "InstallError"]
    ELSE [log |-> <<"import", "install", "import">>,
          error |-> IF env.second THEN "" ELSE "ModuleNotFoundError"]
try_import_stella(env) ==
    IF env.first
    THEN [log |-> <<"import">>, error |-> ""]
    ELSE IF env.install = "raises"
    THEN [log |-> <<"import", "install">>, error |-> "InstallError"]
    ELSE [log |-> <<"import", "install", "import">>,
          error |-> IF env.second THEN "" ELSE "ModuleNotFoundError"]

ImportStella ==
    /\ At("classify", "9f8439c9")
    /\ LET r == try_import_stella(stella_env)
       IN  /\ import_log' = import_log \o r.log
           /\ IF r.error = ""
              THEN Done("9f8439c9")
              ELSE Raise("9f8439c9", r.error, {})
    /\ UNCHANGED <<nb, open_handles, world_vars, fits_file, lc_vars,
                   ds, idx_train, idx_test, idx_val, fit_args, cm_args, cm_fig,
                   cnn, cm_return, seed_log, cnn_file, disk, lcs, printed,
                   cnn_stella, predict_calls, subplots>>

\* str(n) of a non-negative integer, as its sequence of digits
RECURSIVE str(_)
str(n) ==
    LET digit == <<"0", "1", "2", "3", "4", "5", "6", "7", "8", "9">>
    IN  IF n < 10 THEN <<digit[n + 1]>>
        ELSE str(n \div 10) \o <<digit[(n % 10) + 1]>>

\* np.random.seed(seed); os.environ['PYTHONHASHSEED'] = str(seed);
\* random.seed(seed); tf.random.set_seed(seed)
set_seeds_without_tf(cell, seed) ==
    <<[cell |-> cell, generator |-> "numpy", value |-> seed],
      [cell |-> cell, generator |-> "PYTHONHASHSEED", value |-> str(seed)],
      [cell |-> cell, generator |-> "random", value |-> seed]>>
set_seeds(cell, seed) ==
    <<[cell |-> cell, generator |-> "numpy", value |-> seed],
      [cell |-> cell, generator |-> "PYTHONHASHSEED", value |-> str(seed)],
      [cell |-> cell, generator |-> "random", value |-> seed],
      [cell |-> cell, generator |-> "tensorflow", value |-> seed]>>

\* seed = 42; ...
SetSeeds ==
    /\ At("classify", "bbb30625")
    /\ seed_log' = seed_log \o set_seeds("bbb30625", 42)
    /\ Done("bbb30625")
    /\ UNCHANGED <<nb, open_handles, world_vars, fits_file, lc_vars,
                   ds, idx_train, idx_test, idx_val, fit_args, cm_args, cm_fig,
                   cnn, cm_return, import_log, cnn_file, disk, lcs, printed,
                   cnn_stella, predict_calls, subplots>>

\* x_in = Input(...); c0 = Convolution1D(...)(x_in); ...; cnn = Model(...)
BuildNetwork ==
    /\ At("classify", "1a0a501f")
    /\ cnn' = [stage |-> "built"]
    /\ Done("1a0a501f")
    /\ UNCHANGED <<nb, open_handles, world_vars, fits_file, lc_vars,
                   ds, idx_train, idx_test, idx_val, fit_args, cm_args, cm_fig,
                   cm_return, app_vars>>

\* cnn.compile(optimizer=optimizer, loss=loss, metrics=fit_metrics)
Compile ==
    /\ At("classify", "36b53d6e")
    /\ cnn' = [stage |-> "compiled"]
    /\ Done("36b53d6e")
    /\ UNCHANGED <<nb, open_handles, world_vars, fits_file, lc_vars,
                   ds, idx_train, idx_test, idx_val, fit_args, cm_args, cm_fig,
                   cm_return, app_vars>>

\* cnn_file = 'initial_flare_model_small_dataset.h5'; cnn.save(cnn_file)
SaveNetwork ==
    /\ At("classify", "68987361")
    /\ cnn_file' = "initial_flare_model_small_dataset.h5"
    /\ disk' = disk \cup {[path |-> cnn_file', network |-> cnn]}
    /\ Done("68987361")
    /\ UNCHANGED <<nb, open_handles, world_vars, fits_file, lc_vars,
                   ds, idx_train, idx_test, idx_val, fit_args, cm_args, cm_fig,
                   cnn, cm_return, import_log, seed_log, lcs, printed,
                   cnn_stella, predict_calls, subplots>>

----------------------------------------------------------------------------
(* Applying the network to downloaded light curves *)

\* for name in ticids: lc = search_lightcurve(...).download_all();
\*                     lcs.append(lc)
RECURSIVE download_all_targets(_, _)
download_all_targets(archive, targets) ==
    IF targets = <<>> THEN <<>>
    ELSE <<archive[Head(targets)]>>
         \o download_all_targets(archive, Tail(targets))

DownloadLightCurves ==
    /\ At("classify", "cbdc85f0")
    /\ lcs' = download_all_targets(mast_lcs, ticids)
    /\ Done("cbdc85f0")
    /\ UNCHANGED <<nb, open_handles, world_vars, fits_file, lc_vars,
                   ds, idx_train, idx_test, idx_val, fit_args, cm_args, cm_fig,
                   cnn, cm_return, import_log, seed_log, cnn_file, disk,
                   printed, cnn_stella, predict_calls, subplots>>

isfinite(x) == x[2] # 0

\* np.all(np.isfinite(flux))
all_isfinite(column) == \A t \in DOMAIN column : isfinite(column[t])

\* one pass of the body of the quality-check loop:
\*   if len(lc) > 0: lc = lc[0]
\*   if not np.all(np.isfinite(lc.flux)): print('Non-finite number found!')
\* len(None) is a TypeError; a collection has no flux attribute
quality_check_skipping(lc) ==
    IF lc.kind = "None" THEN [printed |-> <<>>, error |-> "TypeError"]
    ELSE IF Len(lc.items) > 0
    THEN [printed |-> IF ~all_isfinite(lc.items[1].flux)
                      THEN <<"Non-finite number found!">> ELSE <<>>,
          error |-> ""]
    ELSE [printed |-> <<>>, error |-> ""]
quality_check(lc) ==
    IF lc.kind = "None" THEN [printed |-> <<>>, error |-> "TypeError"]
    ELSE IF Len(lc.items) > 0
    THEN [printed |-> IF ~all_isfinite(lc.items[1].flux)
                      THEN <<"Non-finite number found!">> ELSE <<>>,
          error |-> ""]
    ELSE [printed |-> <<>>, error |-> "AttributeError"]

\* for lc in lcs: ... -- the lines printed, and the exception that ends the loop
RECURSIVE quality_check_loop(_)
quality_check_loop(colls) ==
    IF colls = <<>> THEN [printed |-> <<>>, error |-> ""]
    ELSE LET b == quality_check(Head(colls))
         IN  IF b.error # "" THEN b
             ELSE LET r == quality_check_loop(Tail(colls))
                  IN  [printed |-> b.printed \o r.printed, error |-> r.error]

QualityCheck ==
    /\ At("classify", "6de76c30")
    /\ LET r == quality_check_loop(lcs)
       IN  /\ printed' = printed \o r.printed
           /\ IF r.error = ""
              THEN Done("6de76c30")
              ELSE Raise("6de76c30", r.error, {"lc"})
    /\ UNCHANGED <<nb, open_handles, world_vars, fits_file, lc_vars,
                   ds, idx_train, idx_test, idx_val, fit_args, cm_args, cm_fig,
                   cnn, cm_return, import_log, seed_log, cnn_file, disk, lcs,
                   cnn_stella, predict_calls, subplots>>

\* cnn_stella = stella.ConvNN(output_dir=data_dir, ds=ds)
LoadConvNN ==
    /\ At("classify", "1119c631")
    /\ cnn_stella' = [output_dir |-> "./hellouniverse_stella_500/"]
    /\ Done("1119c631")
    /\ UNCHANGED <<nb, open_handles, world_vars, fits_file, lc_vars,
                   ds, idx_train, idx_test, idx_val, fit_args, cm_args, cm_fig,
                   cnn, cm_return, import_log, seed_log, cnn_file, disk, lcs,
                   printed, predict_calls, subplots>>

\* fig.add_subplot(4, 2, ...): the grid of figure 0
NRows == 4
NCols == 2

\* the third argument of fig.add_subplot for the i-th (0-based) target
subplot_position_zero_based(i) == i
subplot_position(i) == i + 1

\* one pass of the body of the prediction loop, for the i-th entry lc of lcs:
\*   if len(lc)>0: lc = lc[0]
\*   cnn_stella.predict(modelname, times=..., fluxes=lc.flux, errs=...)
\*   ax = fig.add_subplot(4,2,i+1); ...; ax.set_title('TIC {}'.format(...))
predict_default_model(i, lc, modelname, files) ==
    IF lc.kind = "None"
    THEN [calls |-> <<>>, axes |-> <<>>, error |-> "TypeError"]
    ELSE IF Len(lc.items) = 0
    THEN [calls |-> <<>>, axes |-> <<>>, error |-> "AttributeError"]
    ELSE LET first == lc.items[1]
             call == [modelname |-> "ensemble_s0002_i0010_b0.73.h5",
                      targetid |-> first.targetid, fluxes |-> first.flux]
         IN  IF subplot_position(i) \notin 1..(NRows * NCols)
             THEN [calls |-> <<call>>, axes |-> <<>>, error |-> "ValueError"]
             ELSE [calls |-> <<call>>,
                   axes |-> <<[position |-> subplot_position(i),
                               title |-> first.targetid]>>,
                   error |-> ""]
predict(i, lc, modelname, files) ==
    IF lc.kind = "None"
    THEN [calls |-> <<>>, axes |-> <<>>, error |-> "TypeError"]
    ELSE IF Len(lc.items) = 0
    THEN [calls |-> <<>>, axes |-> <<>>, error |-> "AttributeError"]
    ELSE LET first == lc.items[1]
             call == [modelname |-> modelname,
                      targetid |-> first.targetid, fluxes |-> first.flux]
         IN  IF modelname \notin {f.path : f \in files}
             THEN [calls |-> <<>>, axes |-> <<>>, error |-> "OSError"]
             ELSE IF subplot_position(i) \notin 1..(NRows * NCols)
             THEN [calls |-> <<call>>, axes |-> <<>>, error |-> "ValueError"]
             ELSE [calls |-> <<call>>,
                   axes |-> <<[position |-> subplot_position(i),
                               title |-> first.targetid]>>,
                   error |-> ""]

\* for i, lc in enumerate(lcs): ...
RECURSIVE predict_loop(_, _, _, _)
predict_loop(colls, i, modelname, files) ==
    IF i >= Len(colls) THEN [calls |-> <<>>, axes |-> <<>>, error |-> ""]
    ELSE LET b == predict(i, colls[i + 1], modelname, files)
         IN  IF b.error # "" THEN b
             ELSE LET r == predict_loop(colls, i + 1, modelname, files)
                  IN  [calls |-> b.calls \o r.calls,
                       axes |-> b.axes \o r.axes,
                       error |-> r.error]

PredictTargets ==
    /\ At("classify", "7084f1e7")
    /\ LET r == predict_loop(lcs, 0, cnn_file, disk)
       IN  /\ predict_calls' = predict_calls \o r.calls
           /\ subplots' = subplots \o r.axes
           /\ IF r.error = ""
              THEN Done("7084f1e7")
              ELSE Raise("7084f1e7", r.error, {"fig", "i", "lc"})
    /\ UNCHANGED <<nb, open_handles, world_vars, fits_file, lc_vars,
                   ds, idx_train, idx_test, idx_val, fit_args, cm_args, cm_fig,
                   cnn, cm_return, import_log, seed_log, cnn_file, disk, lcs,
                   printed, cnn_stella>>

----------------------------------------------------------------------------
(* The other cells *)

\* cells that import, query, print or plot: they bind their names and change
\* nothing else of the state above
PlainCells ==
    {"2c8b5772", "5fda2e83", "d06399ef", "a88960dd", "17d51a7f", "a36aa989",
     "870832fb", "02767a2f", "608483f9", "4be426fb",
     "7414e1ae", "09ebfd2a", "72f35a03", "3a237f11", "dda5e69f", "7e4e2950",
     "2ddb555c", "836b0e60", "9c0ea151", "66fa7d2e", "3cbd77a8", "634f5753",
     "7ea9c9d7",
     "9de1b24e", "0576a44e", "efb1e1f0", "431aa51e", "aedab5be",
     "f32865d6", "8105f129", "ad47c76f"}

RunPlainCell ==
    /\ \E c \in PlainCells :
          /\ At(nb, c)
          /\ Done(c)
    /\ UNCHANGED <<nb, open_handles, world_vars, fits_file, lc_vars, ml_vars>>

----------------------------------------------------------------------------
(* The cells with for statements, one pass of a loop body at a time *)

\* the innermost loop being run
Top == loops[Len(loops)]

\* range(n), or the list iterated, has len entries when the loop starts
EnterLoop(name, len) ==
    loops' = Append(loops, [name |-> name, i |-> 0, n |-> len])

\* the loop variable after a pass of the body
next_index_same(i) == i
next_index(i) == i + 1

\* the for statement hands out a next entry: the iterator of range(n) counts
\* to the n it was made with, the iterator of a list to the list's length now
HasNext(name, len) ==
    /\ loops # <<>>
    /\ Top.name = name
    /\ Top.i < len

\* the for statement is exhausted
Exhausted(name, len) ==
    /\ loops # <<>>
    /\ Top.name = name
    /\ Top.i >= len

\* one pass of the body is over
EndPass(name) ==
    /\ loops' = [loops EXCEPT ![Len(loops)].i = next_index(@)]
    /\ iterations' = [iterations EXCEPT ![name] = @ + 1]

\* the statement after the loop is reached
LeaveLoop == loops' = SubSeq(loops, 1, Len(loops) - 1)

\* the partition a call of remove_nans works on
RemoveNansCalls == <<"remove_nans_train", "remove_nans_test", "remove_nans_val">>
input_data_of(name) ==
    CASE name = "remove_nans_train" -> ds.train_data
      [] name = "remove_nans_test" -> ds.test_data
      [] name = "remove_nans_val" -> ds.val_data

\* idx_train = remove_nans(ds.train_data) is called:
\*   idx = []; for k in range(np.shape(input_data)[0]):
CallRemoveNans ==
    /\ At("classify", "245b3c8b")
    /\ loops = <<>>
    /\ EnterLoop("remove_nans_train", Len(ds.train_data))
    /\ idx_train' = <<>>
    /\ UNCHANGED <<nb, run_vars, open_handles, world_vars, fits_file, lc_vars,
                   ds, idx_test, idx_val, fit_args, cm_args, cm_fig,
                   cnn, cm_return, app_vars, iterations>>

\* if len(input_data[k, :, :][np.isnan(input_data[k, :, :])]) == 0:
\*     idx.append(k)
PassRemoveNans ==
    /\ At("classify", "245b3c8b")
    /\ \E name \in {RemoveNansCalls[c] : c \in DOMAIN RemoveNansCalls} :
          /\ HasNext(name, Top.n)
          /\ LET k == Top.i
                 idx == IF Len(NaNElems(input_data_of(name)[k + 1])) = 0
                        THEN <<k>> ELSE <<>>
             IN  /\ idx_train' = IF name = "remove_nans_train"
                                 THEN idx_train \o idx ELSE idx_train
                 /\ idx_test' = IF name = "remove_nans_test"
                                THEN idx_test \o idx ELSE idx_test
                 /\ idx_val' = IF name = "remove_nans_val"
                               THEN idx_val \o idx ELSE idx_val
          /\ EndPass(name)
    /\ UNCHANGED <<nb, run_vars, open_handles, world_vars, fits_file, lc_vars,
                   ds, fit_args, cm_args, cm_fig, cnn, cm_return, app_vars>>

\* return idx; the next call of remove_nans starts
ReturnAndCallRemoveNans ==
    /\ At("classify", "245b3c8b")
    /\ \E c \in 1..(Len(RemoveNansCalls) - 1) :
          /\ Exhausted(RemoveNansCalls[c], Top.n)
          /\ loops' = Append(SubSeq(loops, 1, Len(loops) - 1),
                             [name |-> RemoveNansCalls[c + 1], i |-> 0,
                              n |-> Len(input_data_of(RemoveNansCalls[c + 1]))])
          /\ idx_test' = IF c = 1 THEN <<>> ELSE idx_test
          /\ idx_val' = IF c = 2 THEN <<>> ELSE idx_val
    /\ UNCHANGED <<nb, run_vars, open_handles, world_vars, fits_file, lc_vars,
                   ds, idx_train, fit_args, cm_args, cm_fig, cnn, cm_return,
                   app_vars, iterations>>

\* the last call returns; ds.train_data = ds.train_data[idx_train]; ...
ReturnAndClean ==
    /\ At("classify", "245b3c8b")
    /\ Exhausted("remove_nans_val", Top.n)
    /\ LeaveLoop
    /\ ds' = clean(ds, idx_train, idx_test, idx_val)
    /\ Complete("245b3c8b")
    /\ UNCHANGED <<nb, open_handles, world_vars, fits_file, lc_vars,
                   idx_train, idx_test, idx_val, fit_args, cm_args, cm_fig,
                   cnn, cm_return, app_vars, iterations>>

\* example_ids = np.random.choice(len(ds.train_labels), 16); ...
\* for i in range(len(example_ids)):
ChooseExamples ==
    /\ At("classify", "155ca817")
    /\ loops = <<>>
    /\ IF random_choice(Len(ds.train_labels), NExamples) = ""
       THEN /\ EnterLoop("examples", NExamples)
            /\ UNCHANGED run_vars
       ELSE /\ Halt("155ca817",
                    random_choice(Len(ds.train_labels), NExamples), {})
            /\ UNCHANGED loops
    /\ UNCHANGED <<nb, open_handles, world_vars, fits_file, lc_vars, ml_vars,
                   iterations>>

\* plt.subplot(4, 4, i + 1); plt.plot(...); plt.title(...); plt.xlabel(...)
PassExamples ==
    /\ At("classify", "155ca817")
    /\ HasNext("examples", Top.n)
    /\ EndPass("examples")
    /\ UNCHANGED <<nb, run_vars, open_handles, world_vars, fits_file, lc_vars,
                   ml_vars>>

\* plt.tight_layout(); plt.show()
ShowExamples ==
    /\ At("classify", "155ca817")
    /\ Exhausted("examples", Top.n)
    /\ LeaveLoop
    /\ Complete("155ca817")
    /\ UNCHANGED <<nb, open_handles, world_vars, fits_file, lc_vars, ml_vars,
                   iterations>>

\* plot_confusion_matrix(cnn, ds.test_data, ds.test_labels) is called and
\* runs up to:  for i in range(cm_norm.shape[0]):
CallPlotConfusionMatrix ==
    /\ At("classify", "bff10e4a")
    /\ loops = <<>>
    /\ \E probs \in [1..Len(ds.test_data) -> Probs] :
          LET r == call_plot_confusion_matrix(cnn, ds.test_data,
                                              ds.test_labels, probs)
          IN  /\ cm_fig' = r.figure
              /\ cm_return' = r.returns
              /\ cnn' = r.cnn
              /\ ds' = [ds EXCEPT !.test_data = r.input_data,
                                  !.test_labels = r.input_labels]
              /\ cm_args' = [input_data |-> ds.test_data,
                             input_labels |-> ds.test_labels,
                             probs |-> probs]
              /\ EnterLoop("cm_rows", Len(r.figure.cells))
    /\ UNCHANGED <<nb, run_vars, open_handles, world_vars, fits_file, lc_vars,
                   idx_train, idx_test, idx_val, fit_args, app_vars,
                   iterations>>

\* for j in range(cm_norm.shape[1]):
EnterRow ==
    /\ At("classify", "bff10e4a")
    /\ HasNext("cm_rows", Top.n)
    /\ EnterLoop("cm_cols", Len(cm_fig.cells[1]))
    /\ UNCHANGED <<nb, run_vars, open_handles, world_vars, fits_file, lc_vars,
                   ml_vars, iterations>>

\* ax.text(j, i, format(cm_norm[i, j], fmt), ...)
PassCell ==
    /\ At("classify", "bff10e4a")
    /\ HasNext("cm_cols", Top.n)
    /\ EndPass("cm_cols")
    /\ UNCHANGED <<nb, run_vars, open_handles, world_vars, fits_file, lc_vars,
                   ml_vars>>

\* the inner loop is exhausted: a pass of the outer loop is over
LeaveRow ==
    /\ At("classify", "bff10e4a")
    /\ Exhausted("cm_cols", Top.n)
    /\ loops' = [SubSeq(loops, 1, Len(loops) - 1)
                    EXCEPT ![Len(loops) - 1].i = next_index(@)]
    /\ iterations' = [iterations EXCEPT !["cm_rows"] = @ + 1]
    /\ UNCHANGED <<nb, run_vars, open_handles, world_vars, fits_file, lc_vars,
                   ml_vars>>

\* plt.show(); the call returns
ShowConfusionMatrix ==
    /\ At("classify", "bff10e4a")
    /\ Exhausted("cm_rows", Top.n)
    /\ LeaveLoop
    /\ Complete("bff10e4a")
    /\ UNCHANGED <<nb, open_handles, world_vars, fits_file, lc_vars, ml_vars,
                   iterations>>

\* ticids = [...]; sectors = [...]; lcs = []; for name in ticids:
StartDownload ==
    /\ At("classify", "cbdc85f0")
    /\ loops = <<>>
    /\ lcs' = <<>>
    /\ EnterLoop("download", Len(ticids))
    /\ UNCHANGED <<nb, run_vars, open_handles, world_vars, fits_file, lc_vars,
                   ds, idx_train, idx_test, idx_val, fit_args, cm_args, cm_fig,
                   cnn, cm_return, import_log, seed_log, cnn_file, disk,
                   printed, cnn_stella, predict_calls, subplots, iterations>>

\* lc = search_lightcurve(...).download_all(); lcs.append(lc)
PassDownload ==
    /\ At("classify", "cbdc85f0")
    /\ HasNext("download", Len(ticids))
    /\ lcs' = Append(lcs, mast_lcs[ticids[Top.i + 1]])
    /\ EndPass("download")
    /\ UNCHANGED <<nb, run_vars, open_handles, world_vars, fits_file, lc_vars,
                   ds, idx_train, idx_test, idx_val, fit_args, cm_args, cm_fig,
                   cnn, cm_return, import_log, seed_log, cnn_file, disk,
                   printed, cnn_stella, predict_calls, subplots>>

EndDownload ==
    /\ At("classify", "cbdc85f0")
    /\ Exhausted("download", Len(ticids))
    /\ LeaveLoop
    /\ Complete("cbdc85f0")
    /\ UNCHANGED <<nb, open_handles, world_vars, fits_file, lc_vars, ml_vars,
                   iterations>>

\* for lc in lcs:
StartQualityCheck ==
    /\ At("classify", "6de76c30")
    /\ loops = <<>>
    /\ EnterLoop("quality_check", Len(lcs))
    /\ UNCHANGED <<nb, run_vars, open_handles, world_vars, fits_file, lc_vars,
                   ml_vars, iterations>>

\* if len(lc) > 0: lc = lc[0]
\* if not np.all(np.isfinite(lc.flux)): print('Non-finite number found!')
PassQualityCheck ==
    /\ At("classify", "6de76c30")
    /\ HasNext("quality_check", Len(lcs))
    /\ LET b == quality_check(lcs[Top.i + 1])
       IN  /\ printed' = printed \o b.printed
           /\ IF b.error = ""
              THEN /\ EndPass("quality_check")
                   /\ UNCHANGED run_vars
              ELSE /\ Halt("6de76c30", b.error, {"lc"})
                   /\ UNCHANGED loop_vars
    /\ UNCHANGED <<nb, open_handles, world_vars, fits_file, lc_vars,
                   ds, idx_train, idx_test, idx_val, fit_args, cm_args, cm_fig,
                   cnn, cm_return, import_log, seed_log, cnn_file, disk, lcs,
                   cnn_stella, predict_calls, subplots>>

EndQualityCheck ==
    /\ At("classify", "6de76c30")
    /\ Exhausted("quality_check", Len(lcs))
    /\ LeaveLoop
    /\ Complete("6de76c30")
    /\ UNCHANGED <<nb, open_handles, world_vars, fits_file, lc_vars, ml_vars,
                   iterations>>

\* fig = plt.figure(0, [8, 10]); for i, lc in enumerate(lcs):
StartPredict ==
    /\ At("classify", "7084f1e7")
    /\ loops = <<>>
    /\ EnterLoop("predict", Len(lcs))
    /\ UNCHANGED <<nb, run_vars, open_handles, world_vars, fits_file, lc_vars,
                   ml_vars, iterations>>

\* if len(lc)>0: lc = lc[0]; cnn_stella.predict(...); fig.add_subplot(...)
PassPredict ==
    /\ At("classify", "7084f1e7")
    /\ HasNext("predict", Len(lcs))
    /\ LET b == predict(Top.i, lcs[Top.i + 1], cnn_file, disk)
       IN  /\ predict_calls' = predict_calls \o b.calls
           /\ subplots' = subplots \o b.axes
           /\ IF b.error = ""
              THEN /\ EndPass("predict")
                   /\ UNCHANGED run_vars
              ELSE /\ Halt("7084f1e7", b.error, {"fig", "i", "lc"})
                   /\ UNCHANGED loop_vars
    /\ UNCHANGED <<nb, open_handles, world_vars, fits_file, lc_vars,
                   ds, idx_train, idx_test, idx_val, fit_args, cm_args, cm_fig,
                   cnn, cm_return, import_log, seed_log, cnn_file, disk, lcs,
                   printed, cnn_stella>>

\* plt.tight_layout() -- the statement after the loop
EndPredict ==
    /\ At("classify", "7084f1e7")
    /\ Exhausted("predict", Len(lcs))
    /\ LeaveLoop
    /\ Complete("7084f1e7")
    /\ UNCHANGED <<nb, open_handles, world_vars, fits_file, lc_vars, ml_vars,
                   iterations>>

\* the cells that hold a for statement
LoopCells == {"245b3c8b", "155ca817", "bff10e4a", "cbdc85f0", "6de76c30",
              "7084f1e7"}

----------------------------------------------------------------------------
(* Runs *)

Fresh ==
    /\ pc = 1
    /\ error = ""
    /\ execution_count = 0
    /\ names = {}
    /\ open_handles = {}
    /\ fits_file = ""
    /\ tp_fits = NoFile /\ aperture_image = <<>> /\ aperture = <<>>
    /\ pix = NoTable /\ flux = <<>> /\ time = <<>>
    /\ hdulist = <<>> /\ hdu1 = NoFile /\ aperture_ffi = <<>>
    /\ pix_ffi = NoTable /\ flux_ffi = <<>> /\ time_ffi = <<>>
    /\ ds = NoDs /\ idx_train = <<>> /\ idx_test = <<>> /\ idx_val = <<>>
    /\ fit_args = NoFit /\ cm_args = NoArgs /\ cm_fig = NoFig
    /\ cnn = NoCnn /\ cm_return = "" /\ import_log = <<>> /\ seed_log = <<>>
    /\ cnn_file = "" /\ disk = {} /\ lcs = <<>> /\ printed = <<>>
    /\ cnn_stella = [output_dir |-> ""]
    /\ predict_calls = <<>> /\ subplots = <<>>
    /\ loops = <<>> /\ iterations = [l \in LoopNames |-> 0]

\* no table is empty
AllRows == [ffi |-> 1, lc |-> 1, tp |-> 1]

Init ==
    /\ Fresh
    /\ \/ /\ nb = "cloud"
          /\ tp_archive = NoFile /\ tesscut = NoFile /\ stella_ds = NoDs
          /\ \E r \in 0..MaxRows : mast_rows = [AllRows EXCEPT !.ffi = r]
          /\ stella_env = StellaInstalled /\ mast_lcs = NoLCs
       \/ /\ nb = "lightcurves"
          /\ \/ /\ tp_archive \in TPFiles /\ tesscut = PlainCutout
                /\ mast_rows = AllRows
             \/ /\ tp_archive = PlainTPF /\ tesscut \in Cutouts
                /\ mast_rows = AllRows
             \/ /\ tp_archive = PlainTPF /\ tesscut = PlainCutout
                /\ \E r1, r2 \in 0..MaxRows :
                      mast_rows = [AllRows EXCEPT !.lc = r1, !.tp = r2]
          /\ stella_ds = NoDs
          /\ stella_env = StellaInstalled /\ mast_lcs = NoLCs
       \/ /\ nb = "classify"
          /\ tp_archive = NoFile /\ tesscut = NoFile
          /\ mast_rows = AllRows
          /\ \/ /\ stella_ds \in DataSets
                /\ stella_env = StellaInstalled /\ mast_lcs = PlainLCs
             \/ /\ stella_ds = PlainDs
                /\ stella_env \in StellaEnvs /\ mast_lcs = PlainLCs
             \/ /\ stella_ds = PlainDs
                /\ stella_env = StellaInstalled /\ mast_lcs \in LCArchives

Next ==
    \/ DownloadFFI
    \/ ReadFFI
    \/ DownloadFits
    \/ OptimalAperture
    \/ TPLightCurve
    \/ GetCutouts
    \/ LoadFirstCutout
    \/ FFILightCurve
    \/ ImportStella
    \/ TarOpen
    \/ ExtractAndClose
    \/ LoadDataSet
    \/ CleanDataSet
    \/ PlotExamples
    \/ SetSeeds
    \/ BuildNetwork
    \/ Compile
    \/ Fit
    \/ SaveNetwork
    \/ PlotConfusionMatrix
    \/ DownloadLightCurves
    \/ QualityCheck
    \/ LoadConvNN
    \/ PredictTargets
    \/ RunPlainCell

Spec == Init /\ [][Next]_vars

----------------------------------------------------------------------------
(* Runs in which a cell with a for statement takes one step per pass *)

\* data sets whose samples are all ones or all nan, labelled 1, with at most
\* one test sample
LoopDataSets ==
    {d \in DataSets :
        /\ \A p \in {d.train_data, d.val_data, d.test_data} :
              \A k \in DOMAIN p : \A r \in DOMAIN p[k] :
                 p[k][r] = p[k][1] /\ \A c \in DOMAIN p[k][r] :
                                         p[k][r][c] = p[k][1][1]
        /\ \A l \in {d.train_labels, d.val_labels, d.test_labels} :
              \A k \in DOMAIN l : l[k] = 1
        /\ Len(d.test_data) <= 1}

\* a data set of one clean training sample
TrainOnlyDs ==
    SplitPool(<<<<[r \in 1..SampleShape[1] |->
                      [c \in 1..SampleShape[2] |-> One]], 1>>>>, 1, 1)

InitLoops ==
    /\ Fresh
    /\ \/ /\ nb = "cloud"
          /\ tp_archive = NoFile /\ tesscut = NoFile /\ stella_ds = NoDs
          /\ \E r \in 0..MaxRows : mast_rows = [AllRows EXCEPT !.ffi = r]
          /\ stella_env = StellaInstalled /\ mast_lcs = NoLCs
       \/ /\ nb = "lightcurves"
          /\ tp_archive = PlainTPF /\ tesscut = PlainCutout
          /\ \E r1, r2 \in 0..MaxRows :
                mast_rows = [AllRows EXCEPT !.lc = r1, !.tp = r2]
          /\ stella_ds = NoDs
          /\ stella_env = StellaInstalled /\ mast_lcs = NoLCs
       \/ /\ nb = "classify"
          /\ tp_archive = NoFile /\ tesscut = NoFile
          /\ mast_rows = AllRows
          /\ \/ /\ stella_ds \in LoopDataSets
                /\ stella_env = StellaInstalled /\ mast_lcs = PlainLCs
             \/ /\ stella_ds = TrainOnlyDs
                /\ stella_env \in StellaEnvs /\ mast_lcs = PlainLCs
             \/ /\ stella_ds = TrainOnlyDs
                /\ stella_env = StellaInstalled /\ mast_lcs \in LCArchives

\* the cells without a for statement run in one step, the others pass by pass
NextLoops ==
    \/ DownloadFFI
    \/ ReadFFI
    \/ DownloadFits
    \/ OptimalAperture
    \/ TPLightCurve
    \/ GetCutouts
    \/ LoadFirstCutout
    \/ FFILightCurve
    \/ ImportStella
    \/ TarOpen
    \/ ExtractAndClose
    \/ LoadDataSet
    \/ SetSeeds
    \/ BuildNetwork
    \/ Compile
    \/ Fit
    \/ SaveNetwork
    \/ LoadConvNN
    \/ RunPlainCell
    \/ CallRemoveNans
    \/ PassRemoveNans
    \/ ReturnAndCallRemoveNans
    \/ ReturnAndClean
    \/ ChooseExamples
    \/ PassExamples
    \/ ShowExamples
    \/ CallPlotConfusionMatrix
    \/ EnterRow
    \/ PassCell
    \/ LeaveRow
    \/ ShowConfusionMatrix
    \/ StartDownload
    \/ PassDownload
    \/ EndDownload
    \/ StartQualityCheck
    \/ PassQualityCheck
    \/ EndQualityCheck
    \/ StartPredict
    \/ PassPredict
    \/ EndPredict

\* Run All runs the next statement as soon as the one before it is over
LoopSpec == InitLoops /\ [][NextLoops]_vars /\ WF_vars(NextLoops)

TypeOK ==
    /\ nb \in Notebooks
    /\ pc \in 1..(Len(Cells[nb]) + 1)
    /\ execution_count \in {pc - 1, pc}
    /\ error = "" <=> execution_count = pc - 1

----------------------------------------------------------------------------
(* Helpers of the properties *)

RECURSIVE SetSum(_, _)
SetSum(f, S) ==
    IF S = {} THEN 0
    ELSE LET x == CHOOSE x \in S : TRUE IN f[x] + SetSum(f, S \ {x})

\* the bit of value 2^k is set in the non-negative integer x
BitSet(x, k) == (x \div Pow2(k)) % 2 = 1

HasNaN(sample) ==
    \E r \in DOMAIN sample : \E c \in DOMAIN sample[r] : sample[r][c] = NaN

StrictlyIncreasing(s) == \A i, j \in DOMAIN s : i < j => s[i] < s[j]

Zip(data, labels) == [i \in DOMAIN data |-> <<data[i], labels[i]>>]

\* colors / titles of the notebook: label 1 is 'Flare', label 0 is not
LabelOfTick(tick) == IF tick = "Flare" THEN 1 ELSE 0

\* position of the cell c in its notebook
CellIndex(n, c) == CHOOSE i \in DOMAIN Cells[n] : Cells[n][i] = c

\* the run stopped in the cell c of notebook n
Halted(n, c) == nb = n /\ error # "" /\ pc = CellIndex(n, c)

\* the cell c of notebook n has been executed, to its end or to an exception
Executed(n, c) == Ran(n, c) \/ Halted(n, c)

Count(log, x) == Cardinality({i \in DOMAIN log : log[i] = x})

\* int(s) of a string of digits
RECURSIVE int(_)
int(digits) ==
    LET value == [d \in {"0", "1", "2", "3", "4", "5", "6", "7", "8", "9"} |->
                     CASE d = "0" -> 0 [] d = "1" -> 1 [] d = "2" -> 2
                       [] d = "3" -> 3 [] d = "4" -> 4 [] d = "5" -> 5
                       [] d = "6" -> 6 [] d = "7" -> 7 [] d = "8" -> 8
                       [] d = "9" -> 9]
    IN  IF digits = <<>> THEN 0
        ELSE 10 * int(SubSeq(digits, 1, Len(digits) - 1))
             + value[digits[Len(digits)]]

\* the number a seed_log entry sets its generator to
SeedValue(entry) ==
    IF entry.generator = "PYTHONHASHSEED" THEN int(entry.value)
    ELSE entry.value

Generators == {"numpy", "PYTHONHASHSEED", "random", "tensorflow"}

\* cells that evaluate the trained network or predict with it
EvaluationCells == {"f32865d6", "8105f129", "bff10e4a", "7084f1e7"}

\* download_all() gave a collection with no light curve in it
EmptyCollection(lc) == lc.kind = "LightCurveCollection" /\ lc.items = <<>>

----------------------------------------------------------------------------
(* Properties *)

\* C1: in the matrix plot_confusion_matrix draws, the cell in the row ticked
\* r and the column ticked c is the fraction of the samples whose true label
\* is the one r names that are predicted as the one c names ('Flare' is label
\* 1): top-left true positives, top-right false negatives, bottom-left false
\* positives, bottom-right true negatives.
C1_FlareTicksHoldLabelOne ==
    Ran("classify", "bff10e4a") =>
        LET lab == cm_args.input_labels
            pred == [n \in DOMAIN cm_args.probs |->
                        IF Greater(cm_args.probs[n], Half) THEN 1 ELSE 0]
            Rate(t, p) ==
                TrueDivide(
                    Cardinality({n \in DOMAIN lab : lab[n] = t /\ pred[n] = p}),
                    Cardinality({n \in DOMAIN lab : lab[n] = t}))
        IN  /\ cm_fig.yticklabels[1] = "Flare"
            /\ cm_fig.xticklabels[1] = "Flare"
            /\ \A i, j \in 1..2 :
                  cm_fig.cells[i][j] =
                      Rate(LabelOfTick(cm_fig.yticklabels[i]),
                           LabelOfTick(cm_fig.xticklabels[j]))

\* C2: each row of the normalised confusion matrix adds up to 1, also when
\* the labels hold no sample of one of the two classes.
C2_RowsAddToOne ==
    Ran("classify", "bff10e4a") =>
        \A i \in DOMAIN cm_fig.cells :
            Add(cm_fig.cells[i][1], cm_fig.cells[i][2]) = One

\* C3: every value aperture_phot returns is one integer, the sum of the image
\* values at exactly the positions whose aperture value equals 1; positions
\* with 0 or with another number (2, 3, ...) add nothing.
C3_AperturePhotSumsOnes ==
    /\ Ran("lightcurves", "a754d3b6") =>
          \A t \in DOMAIN pix.FLUX :
              /\ flux[t] \in Int
              /\ flux[t] = SetSum(pix.FLUX[t],
                                  {p \in DOMAIN aperture : aperture[p] = One})
    /\ Ran("lightcurves", "adf4620c") =>
          \A t \in DOMAIN pix_ffi.FLUX :
              /\ flux_ffi[t] \in Int
              /\ flux_ffi[t] =
                    SetSum(pix_ffi.FLUX[t],
                           {p \in DOMAIN aperture_ffi : aperture_ffi[p] = One})

C3_Witness ==
    /\ Ran("lightcurves", "adf4620c")
    /\ \E p, q \in DOMAIN aperture_ffi :
          /\ aperture_ffi[p] = Float(2)
          /\ aperture_ffi[q] = One
          /\ pix_ffi.FLUX[1][p] > 0
          /\ pix_ffi.FLUX[1][q] > 0
          /\ flux_ffi[1] = pix_ffi.FLUX[1][q]

\* C4: the light curve built from the target pixel file has one flux value
\* per cadence, in the order of the TIME column, and the value of cadence t
\* is the sum of that cadence's pixels whose flag has the bit of value 2 set
\* (the SAP sum over the target aperture).
C4_TPLightCurveIsSAP ==
    Ran("lightcurves", "a754d3b6") =>
        LET SAP(t) ==
                SetSum(tp_archive.FLUX[t],
                       {p \in DOMAIN tp_archive.aperture :
                           BitSet(tp_archive.aperture[p], 1)})
        IN  /\ time = tp_archive.TIME
            /\ DOMAIN flux = DOMAIN time
            /\ \A t \in DOMAIN flux : flux[t] = SAP(t)

C4_Witness ==
    /\ Ran("lightcurves", "a754d3b6")
    /\ \E p, q \in DOMAIN aperture_image :
          /\ aperture_image[p] = 3
          /\ aperture_image[q] = 5
          /\ flux[1] = pix.FLUX[1][p]
    /\ flux[1] # flux[2]

\* C5: the optimal-aperture value of a pixel is 1 when the bit of value 2 is
\* set in its flag and 0 when it is not, whatever other bits are set.
C5_ApertureIsZeroOrOne ==
    Ran("lightcurves", "027f8a1a") =>
        /\ DOMAIN aperture = DOMAIN aperture_image
        /\ \A p \in DOMAIN aperture :
              aperture[p] = IF BitSet(aperture_image[p], 1) THEN One ELSE Zero

C5_Witness ==
    /\ Ran("lightcurves", "027f8a1a")
    /\ \E p, q \in DOMAIN aperture_image :
          /\ aperture_image[p] = 7 /\ aperture[p] = One
          /\ aperture_image[q] = 5 /\ aperture[q] = Zero

\* C6 as claimed: the light curve of the cutout sums every pixel of the
\* cutout, whatever the aperture extension holds.
C6_FFIUsesAllPixels ==
    Ran("lightcurves", "adf4620c") =>
        \A t \in DOMAIN flux_ffi :
            flux_ffi[t] = SetSum(tesscut.FLUX[t], DOMAIN tesscut.FLUX[t])

\* C6: the light curve of the cutout sums, at every cadence, the pixels whose
\* value in the cutout's aperture extension is 1; that is every pixel of the
\* cutout when the aperture extension is 1 everywhere.
C6_FFIUsesPixelsMarkedOne ==
    Ran("lightcurves", "adf4620c") =>
        /\ DOMAIN flux_ffi = DOMAIN tesscut.FLUX
        /\ \A t \in DOMAIN flux_ffi :
              /\ flux_ffi[t] =
                    SetSum(tesscut.FLUX[t],
                           {p \in DOMAIN tesscut.aperture :
                               tesscut.aperture[p] = 1})
              /\ (\A p \in DOMAIN tesscut.aperture : tesscut.aperture[p] = 1)
                     => flux_ffi[t] =
                            SetSum(tesscut.FLUX[t], DOMAIN tesscut.FLUX[t])

C6_Witness ==
    /\ Ran("lightcurves", "adf4620c")
    /\ \E p, q \in DOMAIN tesscut.aperture :
          /\ tesscut.aperture[p] = 0
          /\ tesscut.aperture[q] = 1
          /\ tesscut.FLUX[2][p] > 0
          /\ flux_ffi[2] = tesscut.FLUX[2][q]

\* the index list idx and the partition it was computed from, as the library
\* made it, with the partition the cleaning cell left in ds
CleanedPartitions ==
    {[idx |-> idx_train, lib_data |-> stella_ds.train_data,
      lib_labels |-> stella_ds.train_labels,
      data |-> ds.train_data, labels |-> ds.train_labels],
     [idx |-> idx_test, lib_data |-> stella_ds.test_data,
      lib_labels |-> stella_ds.test_labels,
      data |-> ds.test_data, labels |-> ds.test_labels],
     [idx |-> idx_val, lib_data |-> stella_ds.val_data,
      lib_labels |-> stella_ds.val_labels,
      data |-> ds.val_data, labels |-> ds.val_labels]}

\* C7: remove_nans returns exactly the first-axis indices of the samples that
\* hold no NaN: all of them, none of a sample with a NaN, each within
\* 0..N-1, in strictly increasing order.
C7_RemoveNansIndices ==
    Ran("classify", "245b3c8b") =>
        \A part \in CleanedPartitions :
            LET N == Len(part.lib_data)
            IN  /\ \A i \in DOMAIN part.idx : part.idx[i] \in 0..(N - 1)
                /\ \A k \in 0..(N - 1) :
                      (\E i \in DOMAIN part.idx : part.idx[i] = k)
                          <=> ~HasNaN(part.lib_data[k + 1])
                /\ StrictlyIncreasing(part.idx)

C7_Witness ==
    /\ Ran("classify", "245b3c8b")
    /\ Len(stella_ds.train_data) = 2
    /\ stella_ds.train_data[1] = <<<<One>>, <<NaN>>>>
    /\ ~HasNaN(stella_ds.train_data[2])
    /\ idx_train = <<1>>

\* C8: after the cleaning cell no partition of ds holds a sample with a NaN;
\* data and labels of a partition have the same length, sample i and label i
\* are a sample of the library's partition and its own label; every NaN-free
\* sample is kept, in its original relative order.
C8_CleanedPartitionsAligned ==
    Ran("classify", "245b3c8b") =>
        \A part \in CleanedPartitions :
            /\ \A i \in DOMAIN part.data : ~HasNaN(part.data[i])
            /\ Len(part.data) = Len(part.labels)
            /\ \E f \in [DOMAIN part.data -> DOMAIN part.lib_data] :
                  /\ StrictlyIncreasing(f)
                  /\ \A i \in DOMAIN part.data :
                        /\ part.data[i] = part.lib_data[f[i]]
                        /\ part.labels[i] = part.lib_labels[f[i]]
                  /\ \A k \in DOMAIN part.lib_data :
                        ~HasNaN(part.lib_data[k]) => \E i \in DOMAIN f : f[i] = k

C8_Witness ==
    /\ Ran("classify", "245b3c8b")
    /\ Len(stella_ds.test_data) = 2
    /\ HasNaN(stella_ds.test_data[1])
    /\ ~HasNaN(stella_ds.test_data[2])
    /\ stella_ds.test_labels = <<0, 1>>
    /\ ds.test_labels = <<1>>
    /\ Len(ds.test_data) = 1

\* C9 as claimed: the partitions that reach training and evaluation are
\* exactly the ones the library produced.
C9_PartitionsAsLibraryMadeThem ==
    /\ Ran("classify", "76cf6117") =>
          /\ fit_args.train_data = stella_ds.train_data
          /\ fit_args.train_labels = stella_ds.train_labels
          /\ fit_args.val_data = stella_ds.val_data
          /\ fit_args.val_labels = stella_ds.val_labels
    /\ Ran("classify", "bff10e4a") =>
          /\ cm_args.input_data = stella_ds.test_data
          /\ cm_args.input_labels = stella_ds.test_labels

NaNFree(pair) == ~HasNaN(pair[1])

\* C9: the partitions that reach training and evaluation are the library's
\* partitions without the samples that hold a NaN (and without their
\* labels); no sample is added and none reordered.
C9_PartitionsMinusNaNSamples ==
    /\ Ran("classify", "76cf6117") =>
          /\ Zip(fit_args.train_data, fit_args.train_labels) =
                SelectSeq(Zip(stella_ds.train_data, stella_ds.train_labels),
                          NaNFree)
          /\ Zip(fit_args.val_data, fit_args.val_labels) =
                SelectSeq(Zip(stella_ds.val_data, stella_ds.val_labels),
                          NaNFree)
    /\ Ran("classify", "bff10e4a") =>
          Zip(cm_args.input_data, cm_args.input_labels) =
              SelectSeq(Zip(stella_ds.test_data, stella_ds.test_labels),
                        NaNFree)

C9_Witness ==
    /\ Ran("classify", "bff10e4a")
    /\ Len(stella_ds.train_data) = 1 /\ ~HasNaN(stella_ds.train_data[1])
    /\ Len(stella_ds.test_data) = 1 /\ HasNaN(stella_ds.test_data[1])
    /\ fit_args.train_data = stella_ds.train_data
    /\ cm_args.input_data = <<>>

\* C10: at every cell boundary of a top-to-bottom run no file handle opened
\* by an earlier cell is still open.
C10_NoHandleOpenAcrossCells == open_handles = {}

C12_EveryNonFiniteFluxIsReported ==
    (/\ Ran("classify", "6de76c30")
     /\ \E i \in DOMAIN lcs : \E k \in DOMAIN lcs[i].items :
           ~all_isfinite(lcs[i].items[k].flux))
        => Count(printed, "Non-finite number found!") >= 1

\* C13: an exception that leaves a cell stops the run at that cell: the cell
\* pointer does not move, and from then on no cell executes (no later cell,
\* no second try of the failing one).
C13_ExceptionStopsTheRun ==
    [][/\ error = ""
       /\ error' # "" => pc' = pc
       /\ error' = "" => pc' = pc + 1]_vars

C13_Witness ==
    /\ Halted("cloud", "b0d975dd")
    /\ error = "IndexError"
    /\ execution_count = CellIndex("cloud", "b0d975dd")
    /\ "data" \in Bound(names)
    /\ "fits_file" \notin Bound(names)

\* C14: every module-level name the next cell reads has been bound by an
\* earlier cell of the same notebook (or is bound by the cell itself before
\* the read), and the bindings of a run all come from cells of its notebook.
C14_ReadsAreBoundEarlier ==
    /\ \A b \in names : \E i \in 1..pc : i <= Len(Cells[nb]) /\ Cells[nb][i] = b.cell
    /\ (error = "" /\ ~Finished) => Reads[Cells[nb][pc]] \subseteq Bound(names)

C14_Witness ==
    /\ At("classify", "7084f1e7")
    /\ {"cnn_file", "cnn_stella", "lcs", "plt"} \subseteq Bound(names)
    /\ \E b \in names : b.cell = "68987361" /\ "cnn_file" \in b.written

\* C15: from the cell that creates the first network layer on, the numpy
\* seed, PYTHONHASHSEED, Python's random seed and the TensorFlow seed have
\* all been set to 42; from the seeding cell to the end of training they are
\* set by the seeding cell only, once each.
C15_SeedsSetBeforeNetwork ==
    nb = "classify" =>
        /\ (pc >= CellIndex("classify", "1a0a501f") \/ cnn.stage # "none") =>
              \A g \in Generators :
                  \E k \in DOMAIN seed_log :
                      seed_log[k].generator = g /\ SeedValue(seed_log[k]) = 42
        /\ (/\ pc > CellIndex("classify", "bbb30625")
            /\ pc <= CellIndex("classify", "76cf6117") + 1) =>
              /\ Len(seed_log) = Cardinality(Generators)
              /\ \A k \in DOMAIN seed_log :
                    /\ seed_log[k].cell = "bbb30625"
                    /\ SeedValue(seed_log[k]) = 42
        /\ cnn.stage = "trained" => Ran("classify", "bbb30625")

C15_Witness ==
    /\ Ran("classify", "76cf6117")
    /\ cnn.stage = "trained"
    /\ Len(seed_log) = 4
    /\ \E k \in DOMAIN seed_log :
          seed_log[k].generator = "PYTHONHASHSEED" /\ seed_log[k].value = <<"4", "2">>

\* C16: the network is saved in its trained state, before any evaluation or
\* prediction cell runs; every call of cnn_stella.predict is given the path
\* the network was saved to, and cnn_file is bound by the saving cell only.
C16_PredictsWithTheSavedNetwork ==
    nb = "classify" =>
        /\ \A f \in disk : f.network.stage = "trained"
        /\ Ran("classify", "68987361") =>
              disk = {[path |-> cnn_file, network |-> [stage |-> "trained"]]}
        /\ \A c \in EvaluationCells :
              (pc >= CellIndex("classify", c)) => Ran("classify", "68987361")
        /\ \A k \in DOMAIN predict_calls :
              /\ predict_calls[k].modelname \in {f.path : f \in disk}
              /\ predict_calls[k].modelname = cnn_file
              /\ predict_calls[k].targetid = ticids[k]
        /\ Ran("classify", "7084f1e7") => Len(predict_calls) = Len(ticids)
        /\ \A b \in names : "cnn_file" \in b.written => b.cell = "68987361"

C16_Witness ==
    /\ Ran("classify", "7084f1e7")
    /\ Len(predict_calls) = Len(ticids)
    /\ predict_calls[8].modelname = "initial_flare_model_small_dataset.h5"

\* C17: the call plot_confusion_matrix(cnn, ds.test_data, ds.test_labels)
\* evaluates to None and leaves the network, the data set (so the arrays it
\* was given) and every other name of the notebook as they were: the figure
\* is its only effect.
C17_PlotConfusionMatrixOnlyPlots ==
    [][At("classify", "bff10e4a") =>
          /\ cm_return' = "None"
          /\ cnn' = cnn
          /\ ds' = ds
          /\ cm_args'.input_data = ds'.test_data
          /\ cm_args'.input_labels = ds'.test_labels
          /\ UNCHANGED <<idx_train, idx_test, idx_val, fit_args, app_vars,
                         open_handles>>]_vars

C17_Witness ==
    /\ Ran("classify", "bff10e4a")
    /\ cm_return = "None"
    /\ cm_fig # NoFig
    /\ Len(ds.test_labels) > 0
    /\ ds.test_labels[1] = 1
    /\ ~Greater(cm_args.probs[1], Half)

\* C18: when the search of a target gave an empty collection, the quality
\* check does not pass the target over: the cell stops the run with the
\* error of reading flux from the collection itself, so no prediction is
\* ever made in such a run.
C18_EmptyCollectionStopsTheRun ==
    (/\ Executed("classify", "6de76c30")
     /\ \E i \in DOMAIN lcs : EmptyCollection(lcs[i]))
        => /\ Halted("classify", "6de76c30")
           /\ error = "AttributeError"
           /\ predict_calls = <<>>

C18_Witness ==
    /\ Halted("classify", "6de76c30")
    /\ error = "AttributeError"
    /\ EmptyCollection(lcs[3])
    /\ \A i \in DOMAIN lcs : i # 3 => Len(lcs[i].items) > 0

\* C19: after the download loop lcs holds one entry per identifier of
\* ticids, in the same order; the prediction loop draws the k-th target
\* (counting from 1) at subplot position k, which lies within the
\* NRows x NCols grid, and no two targets share a position.
C19_OneEntryAndOneSubplotPerTarget ==
    nb = "classify" =>
        /\ Ran("classify", "cbdc85f0") =>
              /\ Len(lcs) = Len(ticids)
              /\ \A i \in DOMAIN lcs : lcs[i] = mast_lcs[ticids[i]]
        /\ ~(Halted("classify", "7084f1e7") /\ error = "ValueError")
        /\ Len(ticids) <= NRows * NCols
        /\ \A k \in DOMAIN subplots :
              /\ subplots[k].position = k
              /\ subplots[k].position \in 1..(NRows * NCols)
              /\ subplots[k].title = ticids[k]
        /\ \A j, k \in DOMAIN subplots :
              j # k => subplots[j].position # subplots[k].position
        /\ Ran("classify", "7084f1e7") => Len(subplots) = Len(ticids)

C19_Witness ==
    /\ Ran("classify", "7084f1e7")
    /\ Len(lcs) = 8
    /\ Len(lcs[2].items) = 2
    /\ subplots[8] = [position |-> 8, title |-> "206544316"]

\* C20: when no position of the aperture equals 1, aperture_phot returns 0
\* for every image and does not fail: the light curve built with such an
\* aperture is 0 at every cadence.
C20_EmptyApertureGivesZero ==
    /\ (/\ Executed("lightcurves", "a754d3b6")
        /\ \A p \in DOMAIN aperture : aperture[p] # One)
          => /\ Ran("lightcurves", "a754d3b6")
             /\ DOMAIN flux = DOMAIN pix.FLUX
             /\ \A t \in DOMAIN flux : flux[t] = 0
    /\ (/\ Executed("lightcurves", "adf4620c")
        /\ \A p \in DOMAIN aperture_ffi : aperture_ffi[p] # One)
          => /\ Ran("lightcurves", "adf4620c")
             /\ DOMAIN flux_ffi = DOMAIN pix_ffi.FLUX
             /\ \A t \in DOMAIN flux_ffi : flux_ffi[t] = 0

C20_Witness ==
    /\ Ran("lightcurves", "adf4620c")
    /\ \A p \in DOMAIN aperture_ffi : aperture_ffi[p] \in {Zero, Float(2)}
    /\ \E p \in DOMAIN aperture_ffi : pix_ffi.FLUX[2][p] > 0
    /\ flux_ffi = [t \in Cadences |-> 0]

\* the cell a for statement is written in
CellOfLoop(name) ==
    CASE name \in {"remove_nans_train", "remove_nans_test", "remove_nans_val"}
            -> "245b3c8b"
      [] name = "examples" -> "155ca817"
      [] name \in {"cm_rows", "cm_cols"} -> "bff10e4a"
      [] name = "download" -> "cbdc85f0"
      [] name = "quality_check" -> "6de76c30"
      [] name = "predict" -> "7084f1e7"

\* the entries a for statement goes through each time it is run: the samples
\* of a partition, the examples, the rows and columns of the matrix, the targets
LoopLength(name) ==
    CASE name = "remove_nans_train" -> Len(stella_ds.train_data)
      [] name = "remove_nans_test" -> Len(stella_ds.test_data)
      [] name = "remove_nans_val" -> Len(stella_ds.val_data)
      [] name = "examples" -> NExamples
      [] name = "cm_rows" -> Len(cm_fig.cells)
      [] name = "cm_cols" -> Len(cm_fig.cells[1])
      [] name \in {"download", "quality_check", "predict"} -> Len(ticids)

\* the passes of a loop's body in a run of its cell: the inner loop of
\* plot_confusion_matrix is run once per row
PassesPerRun(name) ==
    IF name = "cm_cols" THEN LoopLength("cm_rows") * LoopLength("cm_cols")
    ELSE LoopLength(name)

\* no import, call or subscript of a library object raises: stella can be
\* imported, np.random.choice has training samples to choose from, every
\* table downloaded has a row 0 and every download_all() gives a collection
EveryLibraryCallReturns ==
    /\ stella_env.first \/ (stella_env.install = "returns" /\ stella_env.second)
    /\ \A product \in DOMAIN mast_rows : mast_rows[product] > 0
    /\ nb = "classify" => remove_nans(stella_ds.train_data) # <<>>
    /\ \A n \in DOMAIN mast_lcs : mast_lcs[n].kind # "None"

C21_PassesAreFixed ==
    /\ \A k \in DOMAIN loops :
          LET f == loops[k]
          IN  /\ pc <= Len(Cells[nb])
              /\ Cells[nb][pc] = CellOfLoop(f.name)
              /\ f.n = LoopLength(f.name)
              /\ f.i \in 0..f.n
              /\ iterations[f.name] =
                    IF f.name = "cm_cols" THEN loops[k - 1].i * f.n + f.i
                    ELSE f.i
              /\ f.name \in {"quality_check", "predict"} => Len(lcs) = f.n
    /\ \A name \in LoopNames :
          /\ Ran("classify", CellOfLoop(name))
                => iterations[name] = PassesPerRun(name)
          /\ (nb # "classify" \/ pc < CellIndex("classify", CellOfLoop(name)))
                => iterations[name] = 0

====
